---- MODULE Spec2Model ----
(***************************************************************************)
(* Model of the ionic-traces registration handshake:                      *)
(*   - ionic/__main__.py : time_message_handler, register_user,           *)
(*                         deregister_handler, _get_user_by_id            *)
(*   - ionic/web.py      : receive_timezone (POST /)                      *)
(*   - ionic/schemas.py  : User (table mbd_user)                          *)
(*   - ionic/cfg.py      : REGISTRATION_TIMEOUT                           *)
(*                                                                         *)
(* Time is counted in units of 10 seconds, the argument of the waiter's   *)
(* asyncio.sleep(10).  `now` is the reading of dt.datetime.now(), the     *)
(* host's naive local clock; dt.datetime.now(tz=utc) reads now-hostOffset. *)
(***************************************************************************)
EXTENDS Integers, FiniteSets, Sequences, TLC

(* ------------------------------ bounds -------------------------------- *)
\* number of Discord identities that write messages
MaxUsers == 2
\* number of MessageCreate events (handler tasks) in one behaviour
MaxMsgs == 2
\* size of the modelled slice of the link_id pool
MaxLinkIds == 2
\* the clock stops after this many 10 s units
MaxTime == 62

(* ------------------------- program constants -------------------------- *)
\* cfg.REGISTRATION_TIMEOUT = dt.timedelta(minutes=10) = 60 units of 10 s
REGISTRATION_TIMEOUT == 60
\* asyncio.sleep(10) in the waiter loop = 1 unit of 10 s
POLL_SLEEP == 1
\* random.randrange(1000000, 9999999, 1): first value of the range
LINK_ID_START == 1000000
\* quart.abort(401) and jsonify(success=True) (HTTP 200)
HTTP_UNAUTHORIZED == 401
HTTP_OK == 200

UserIds == 1..MaxUsers
Msgs == 1..MaxMsgs
\* the slice of range(1000000, 9999999) the draws are taken from
LinkIds == LINK_ID_START..(LINK_ID_START + MaxLinkIds - 1)
\* instants (in 10 s units after the first message) at which a later
\* message may arrive: together with the first, while its handshake is
\* pending, and just after its window has closed
ArrivalTimes == {0, 1, REGISTRATION_TIMEOUT + 1}
\* zone names the registration page may POST
Zones == {"America/New_York"}
\* offsets (local - UTC) of the host the bot and the web app run on:
\* one hour west of UTC, UTC, one hour east of UTC (one hour = 360 units)
HostOffsets == {0 - 360, 0, 360}

VARIABLES
    hostOffset,     \* host local time minus UTC, fixed for a behaviour
    now,            \* dt.datetime.now() on the host
    users,          \* table mbd_user: id -> [tz, update_id, update_dt]
    pc,             \* per handler task: position in time_message_handler
    author,         \* per handler task: event.author_id
    link_id,        \* per handler task: register_user's link_id
    instance,       \* per handler task: register_user's instance
    slept,          \* per handler task: asyncio.sleep(10) has elapsed
    reply,          \* per handler task: state of response_msg
    started,        \* per handler task: `now` when its record was stamped
    terminal,       \* per handler task: call the waiter ended with
    error,          \* per handler task: exception that ended the task
    content,        \* message.content of the message whose text is followed
    stage,          \* position of that message's handler in the text path
    time_list,      \* time_list of _time_list_from_string / the handler
    embed,          \* description of the embed the handler replied with
    guild,          \* kind of the guild the followed reply was sent in
    reactions,      \* per handler task: the reactions on its response_msg
    react_events,   \* GuildReactionAddEvents dispatched and not yet handled
    handled,        \* GuildReactionAddEvents whose listeners have returned
    reactors_register,  \* bot.reactors_register: reaction -> user id -> time
    requested,      \* per (reaction, user): the expiries asked for since the
                    \* pair's last undo_react_storm_user (kept for the claims)
    calls,          \* number of calls made on the registry
    storm_error,    \* exception the last call on the registry ended with
    stormed         \* reactions _user_reactor added to the last message

\* the variables of the registration handshake and of the text path
handshakeVars == <<hostOffset, now, users, pc, author, link_id, instance, slept, reply, started, terminal, error>>
textVars == <<content, stage, time_list, embed>>
reactionVars == <<guild, reactions, react_events, handled>>
stormVars == <<reactors_register, requested, calls, storm_error, stormed>>
vars == <<handshakeVars, textVars, reactionVars, stormVars>>

\* no row / no author: Discord ids are positive
NoUser == 0
NoAuthor == 0
NoLinkId == 0
NoInstance == [state |-> "unset", update_dt |-> 0]

\* dt.datetime.now(tz=utc), stored naive in the TIMESTAMP column
UtcNow == now - hostOffset

\* schemas.User(id, tz): tz as given, update_id unset, update_dt = utc now
NewUser(tz) == [tz |-> tz, update_id |-> NoLinkId, update_dt |-> UtcNow]

\* register_user: dt.datetime.now() - User.update_dt <= REGISTRATION_TIMEOUT
InWindow(row) == now - row.update_dt <= REGISTRATION_TIMEOUT

\* web.py: dt.datetime.now() - user.update_dt > REGISTRATION_TIMEOUT
Expired(row) == now - row.update_dt > REGISTRATION_TIMEOUT

\* waiter: dt.datetime.now() - user.update_dt > REGISTRATION_TIMEOUT
WaiterTimedOut(row) == now - row.update_dt > REGISTRATION_TIMEOUT

\* user is None or user.tz == ""
IsUserNotRegistered(u) == u \notin DOMAIN users \/ users[u].tz = ""

\* an UPDATE that has lost its WHERE clause: the new update_id lands in
\* every row (mutant of PutRow)
PutRowNoWhere(u, row) ==
    [x \in DOMAIN users \cup {u} |->
        IF x = u THEN row ELSE [users[x] EXCEPT !.update_id = row.update_id]]

\* session.add of a new row / UPDATE of an existing one
PutRow(u, row) ==
    [x \in DOMAIN users \cup {u} |-> IF x = u THEN row ELSE users[x]]

\* /unregister that blanks the zone and keeps the row (mutant of DropRow)
DropRowKeepsRecord(u) ==
    [x \in DOMAIN users |-> IF x = u THEN [users[x] EXCEPT !.tz = ""]
                                     ELSE users[x]]

\* DELETE FROM mbd_user WHERE id = u
DropRow(u) == [x \in DOMAIN users \ {u} |-> users[x]]

Init ==
    /\ hostOffset \in HostOffsets
    /\ now = 0
    /\ users = [x \in {} |-> NewUser("")]
    /\ pc = [m \in Msgs |-> "idle"]
    /\ author = [m \in Msgs |-> NoAuthor]
    /\ link_id = [m \in Msgs |-> NoLinkId]
    /\ instance = [m \in Msgs |-> NoInstance]
    /\ slept = [m \in Msgs |-> FALSE]
    /\ reply = [m \in Msgs |-> "none"]
    /\ started = [m \in Msgs |-> 0]
    /\ terminal = [m \in Msgs |-> "none"]
    /\ error = [m \in Msgs |-> "none"]
    /\ content = << >>
    /\ stage = "untracked"
    /\ time_list = << >>
    /\ embed = << >>
    /\ guild = "untracked"
    /\ reactions = [m \in Msgs |-> {}]
    /\ react_events = {}
    /\ handled = {}
    /\ reactors_register = << >>
    /\ requested = << >>
    /\ calls = 0
    /\ storm_error = "none"
    /\ stormed = {}

(* ----------------------- time_message_handler ------------------------- *)
\* A message of user u with at least one parsed time arrives (lines 263-278
\* passed: not a bot, content not empty, len(time_list) > 0).
MessageCreate(m, u) ==
    /\ pc[m] = "idle"
    /\ \A k \in Msgs : k < m => pc[k] # "idle"
    /\ now \in ArrivalTimes
    /\ pc' = [pc EXCEPT ![m] = "get_user"]
    /\ author' = [author EXCEPT ![m] = u]
    /\ UNCHANGED <<hostOffset, now, users, link_id,
                   instance, slept, reply, started, terminal, error>>
    /\ UNCHANGED <<textVars, reactionVars, stormVars>>

\* user = await _get_user_by_id(user_id); is_user_not_registered
GetUser(m) ==
    /\ pc[m] = "get_user"
    /\ pc' = [pc EXCEPT ![m] = IF IsUserNotRegistered(author[m])
                                 THEN "respond_placeholder"
                                 ELSE "respond_embed"]
    /\ UNCHANGED <<hostOffset, now, users, author, link_id, instance, slept, reply, started, terminal, error>>
    /\ UNCHANGED <<textVars, reactionVars, stormVars>>

\* registered author: message.respond(content="", embed=embed, reply=True)
RespondEmbed(m) ==
    /\ pc[m] = "respond_embed"
    /\ reply' = [reply EXCEPT ![m] = "converted"]
    /\ pc' = [pc EXCEPT ![m] = "done"]
    /\ UNCHANGED <<hostOffset, now, users, author, link_id, instance, slept, started, terminal, error>>
    /\ UNCHANGED <<textVars, reactionVars, stormVars>>

\* unregistered author: message.respond("You haven't registered ...")
RespondPlaceholder(m) ==
    /\ pc[m] = "respond_placeholder"
    /\ reply' = [reply EXCEPT ![m] = "placeholder"]
    /\ pc' = [pc EXCEPT ![m] = "select_link_ids"]
    /\ UNCHANGED <<hostOffset, now, users, author, link_id, instance, slept, started, terminal, error>>
    /\ UNCHANGED <<textVars, reactionVars, stormVars>>

(* --------------------------- register_user ---------------------------- *)
\* select(User.update_dt, User.update_id).where(now - update_dt <= TIMEOUT)
UsedLinkIds == {users[u].update_id : u \in {x \in DOMAIN users : InWindow(users[x])}}

\* while True: link_id = randrange(...); if link_id not in used: break
\* -- the values the loop can leave with
DrawLinkId(used) == LinkIds \ used

\* first transaction of register_user and the draw that follows it; with
\* every link id in use the loop never ends and the step is not enabled
RegisterSelect(m, id) ==
    /\ pc[m] = "select_link_ids"
    /\ id \in DrawLinkId(UsedLinkIds)
    /\ link_id' = [link_id EXCEPT ![m] = id]
    /\ pc' = [pc EXCEPT ![m] = "get_instance"]
    /\ UNCHANGED <<hostOffset, now, users, author, instance,
                   slept, reply, started, terminal, error>>
    /\ UNCHANGED <<textVars, reactionVars, stormVars>>

\* instance = await session.get(User, id); User(id, "") when None, else
\* instance.update_dt = dt.datetime.now()
StampInstance(u) ==
    IF u \in DOMAIN users
    THEN [state |-> "loaded", update_dt |-> now]
    ELSE [state |-> "new", update_dt |-> NewUser("").update_dt]

RegisterGet(m) ==
    /\ pc[m] = "get_instance"
    /\ instance' = [instance EXCEPT ![m] = StampInstance(author[m])]
    /\ started' = [started EXCEPT ![m] = now]
    /\ pc' = [pc EXCEPT ![m] = "commit"]
    /\ UNCHANGED <<hostOffset, now, users, author, link_id, slept, reply, terminal, error>>
    /\ UNCHANGED <<textVars, reactionVars, stormVars>>

\* instance.update_id = link_id; session.add(instance); commit.
\* A new instance is INSERTed (IntegrityError when the key exists by now),
\* a loaded one is UPDATEd in update_id and update_dt only
\* (StaleDataError when the row is gone by now).
\* register_user creating the row as User(id, "UTC") (mutant of CommitRow)
CommitRowDefaultZone(m) ==
    IF instance[m].state = "new"
    THEN [NewUser("UTC") EXCEPT !.update_id = link_id[m],
                                !.update_dt = instance[m].update_dt]
    ELSE [users[author[m]] EXCEPT !.update_id = link_id[m],
                                  !.update_dt = instance[m].update_dt]

CommitRow(m) ==
    IF instance[m].state = "new"
    THEN [NewUser("") EXCEPT !.update_id = link_id[m],
                             !.update_dt = instance[m].update_dt]
    ELSE [users[author[m]] EXCEPT !.update_id = link_id[m],
                                  !.update_dt = instance[m].update_dt]

\* register_user is left, by return or by an exception: its locals are gone
LeaveRegisterUser(m) ==
    /\ link_id' = [link_id EXCEPT ![m] = NoLinkId]
    /\ instance' = [instance EXCEPT ![m] = NoInstance]

RegisterCommit(m) ==
    /\ pc[m] = "commit"
    /\ \/ /\ (instance[m].state = "new") = (author[m] \notin DOMAIN users)
          /\ users' = PutRow(author[m], CommitRow(m))
          /\ pc' = [pc EXCEPT ![m] = "send_dm"]
          /\ UNCHANGED <<error, link_id, instance>>
       \/ /\ instance[m].state = "new"
          /\ author[m] \in DOMAIN users
          /\ error' = [error EXCEPT ![m] = "IntegrityError"]
          /\ pc' = [pc EXCEPT ![m] = "failed"]
          /\ LeaveRegisterUser(m)
          /\ UNCHANGED users
       \/ /\ instance[m].state = "loaded"
          /\ author[m] \notin DOMAIN users
          /\ error' = [error EXCEPT ![m] = "StaleDataError"]
          /\ pc' = [pc EXCEPT ![m] = "failed"]
          /\ LeaveRegisterUser(m)
          /\ UNCHANGED users
    /\ UNCHANGED <<hostOffset, now, author, slept, reply, started, terminal>>
    /\ UNCHANGED <<textVars, reactionVars, stormVars>>

\* await message.author.send("Visit this link ... /register/{link_id}");
\* the platform refuses the DM (ForbiddenError) when the author blocks DMs.
\* On success register_user returns and the waiter's loop is entered.
SendLink(m) ==
    /\ pc[m] = "send_dm"
    /\ \/ /\ pc' = [pc EXCEPT ![m] = "sleep"]
          /\ slept' = [slept EXCEPT ![m] = FALSE]
          /\ UNCHANGED error
       \/ /\ pc' = [pc EXCEPT ![m] = "failed"]
          /\ error' = [error EXCEPT ![m] = "ForbiddenError"]
          /\ UNCHANGED slept
    /\ LeaveRegisterUser(m)
    /\ UNCHANGED <<hostOffset, now, users, author, reply, started, terminal>>
    /\ UNCHANGED <<textVars, reactionVars, stormVars>>

(* ------------------------ the waiter's loop --------------------------- *)
\* One pass of `while True:` after asyncio.sleep(10) has returned:
\*   user = await _get_user_by_id(user_id)
\*   if now - user.update_dt > TIMEOUT: delete; break
\*   elif user is None or user.tz == "": continue
\*   edit (NotFoundError swallowed); break
PollOutcome(u) ==
    IF u \notin DOMAIN users THEN "AttributeError"
    ELSE IF WaiterTimedOut(users[u]) THEN "delete"
    ELSE IF IsUserNotRegistered(u) THEN "continue"
    ELSE "edit"

\* the waiter without `except h.NotFoundError: pass` around its edit
\* (mutant of Poll)
PollEditNotFoundRaises(m) ==
    /\ pc[m] = "sleep"
    /\ slept[m]
    /\ \/ /\ PollOutcome(author[m]) = "AttributeError"
          /\ pc' = [pc EXCEPT ![m] = "failed"]
          /\ error' = [error EXCEPT ![m] = "AttributeError"]
          /\ UNCHANGED <<reply, terminal, slept>>
       \/ /\ PollOutcome(author[m]) = "delete"
          /\ terminal' = [terminal EXCEPT ![m] = "delete"]
          /\ IF reply[m] = "deleted"
             THEN /\ pc' = [pc EXCEPT ![m] = "failed"]
                  /\ error' = [error EXCEPT ![m] = "NotFoundError"]
                  /\ UNCHANGED reply
             ELSE /\ pc' = [pc EXCEPT ![m] = "done"]
                  /\ reply' = [reply EXCEPT ![m] = "deleted"]
                  /\ UNCHANGED error
          /\ UNCHANGED slept
       \/ /\ PollOutcome(author[m]) = "continue"
          /\ slept' = [slept EXCEPT ![m] = FALSE]
          /\ UNCHANGED <<pc, reply, terminal, error>>
       \/ /\ PollOutcome(author[m]) = "edit"
          /\ terminal' = [terminal EXCEPT ![m] = "edit"]
          /\ IF reply[m] = "deleted"
             THEN /\ pc' = [pc EXCEPT ![m] = "failed"]
                  /\ error' = [error EXCEPT ![m] = "NotFoundError"]
                  /\ UNCHANGED reply
             ELSE /\ pc' = [pc EXCEPT ![m] = "done"]
                  /\ reply' = [reply EXCEPT ![m] = "converted"]
                  /\ UNCHANGED error
          /\ UNCHANGED slept
    /\ UNCHANGED <<hostOffset, now, users, author, link_id, instance, started>>
    /\ UNCHANGED <<textVars, reactionVars, stormVars>>

Poll(m) ==
    /\ pc[m] = "sleep"
    /\ slept[m]
    /\ \/ /\ PollOutcome(author[m]) = "AttributeError"
          /\ pc' = [pc EXCEPT ![m] = "failed"]
          /\ error' = [error EXCEPT ![m] = "AttributeError"]
          /\ UNCHANGED <<reply, terminal, slept>>
       \/ /\ PollOutcome(author[m]) = "delete"
          /\ terminal' = [terminal EXCEPT ![m] = "delete"]
          /\ IF reply[m] = "deleted"
             THEN /\ pc' = [pc EXCEPT ![m] = "failed"]
                  /\ error' = [error EXCEPT ![m] = "NotFoundError"]
                  /\ UNCHANGED reply
             ELSE /\ pc' = [pc EXCEPT ![m] = "done"]
                  /\ reply' = [reply EXCEPT ![m] = "deleted"]
                  /\ UNCHANGED error
          /\ UNCHANGED slept
       \/ /\ PollOutcome(author[m]) = "continue"
          /\ slept' = [slept EXCEPT ![m] = FALSE]
          /\ UNCHANGED <<pc, reply, terminal, error>>
       \/ /\ PollOutcome(author[m]) = "edit"
          /\ terminal' = [terminal EXCEPT ![m] = "edit"]
          /\ pc' = [pc EXCEPT ![m] = "done"]
          /\ reply' = [reply EXCEPT ![m] =
                            IF reply[m] = "deleted" THEN "deleted" ELSE "converted"]
          /\ UNCHANGED <<error, slept>>
    /\ UNCHANGED <<hostOffset, now, users, author, link_id, instance, started>>
    /\ UNCHANGED <<textVars, reactionVars, stormVars>>

(* ------------------------------ clock --------------------------------- *)
\* A handler task between two of its awaits, not inside asyncio.sleep(10).
Running(m) ==
    \/ pc[m] \in {"get_user", "respond_embed", "respond_placeholder",
                  "get_instance", "commit", "send_dm"}
    \/ pc[m] = "select_link_ids" /\ DrawLinkId(UsedLinkIds) # {}
    \/ pc[m] = "sleep" /\ slept[m]

\* 10 seconds pass; every task inside asyncio.sleep(10) becomes runnable.
\* Timing assumption: the awaits of a handler other than the sleep take less
\* than 10 s, so the clock advances only when no task is running; the time
\* origin is the arrival of the first message.
Tick ==
    /\ now < MaxTime
    /\ pc[1] # "idle"
    /\ \A m \in Msgs : ~Running(m)
    /\ now' = now + POLL_SLEEP
    /\ slept' = [m \in Msgs |-> pc[m] = "sleep"]
    /\ UNCHANGED <<hostOffset, users, pc, author, link_id, instance, reply, started, terminal, error>>
    /\ UNCHANGED <<textVars, reactionVars, stormVars>>

(* -------------------------- /unregister ------------------------------- *)
\* delete(User).where(User.id == ctx.author.id)
Deregister(u) ==
    /\ users' = DropRow(u)
    /\ UNCHANGED <<hostOffset, now, pc, author, link_id, instance, slept, reply, started, terminal, error>>
    /\ UNCHANGED <<textVars, reactionVars, stormVars>>

(* --------------------- web.py: POST / --------------------------------- *)
\* select(User).where(User.update_id == int(link_id)): the rows that match
MatchingRows(id) == {u \in DOMAIN users : users[u].update_id = id}

\* .fetchone(): None without a match; with several matches (the query has
\* no ORDER BY) any of them may be the row returned
FetchOne(id) == IF MatchingRows(id) = {} THEN {NoUser} ELSE MatchingRows(id)

\* receive_timezone without its second abort: the age of the row is not
\* looked at (mutant of ReceiveResult)
ReceiveResultNoExpiryCheck(row, zone) ==
    IF row = NoUser
    THEN [status |-> HTTP_UNAUTHORIZED, users |-> users]
    ELSE [status |-> HTTP_OK, users |-> [users EXCEPT ![row].tz = zone]]

\* receive_timezone that accepts a token once only: a record that already
\* has a zone is refused (mutant of ReceiveResult)
ReceiveResultOnceOnly(row, zone) ==
    IF row = NoUser
    THEN [status |-> HTTP_UNAUTHORIZED, users |-> users]
    ELSE IF Expired(users[row]) \/ users[row].tz # ""
    THEN [status |-> HTTP_UNAUTHORIZED, users |-> users]
    ELSE [status |-> HTTP_OK, users |-> [users EXCEPT ![row].tz = zone]]

\* receive_timezone that consumes the token it accepts (mutant of
\* ReceiveResult)
ReceiveResultClearsToken(row, zone) ==
    IF row = NoUser
    THEN [status |-> HTTP_UNAUTHORIZED, users |-> users]
    ELSE IF Expired(users[row])
    THEN [status |-> HTTP_UNAUTHORIZED, users |-> users]
    ELSE [status |-> HTTP_OK,
          users |-> [users EXCEPT ![row].tz = zone,
                                  ![row].update_id = NoLinkId]]

\* receive_timezone once fetchone() has returned `row`: the HTTP status and
\* the table after the transaction
\*   if user is None: quart.abort(401)
\*   if now - user.update_dt > REGISTRATION_TIMEOUT: quart.abort(401)
\*   user.tz = timezone; return jsonify(success=True)
ReceiveResult(row, zone) ==
    IF row = NoUser
    THEN [status |-> HTTP_UNAUTHORIZED, users |-> users]
    ELSE IF Expired(users[row])
    THEN [status |-> HTTP_UNAUTHORIZED, users |-> users]
    ELSE [status |-> HTTP_OK, users |-> [users EXCEPT ![row].tz = zone]]

ReceiveTimezone(id, zone) ==
    /\ \E row \in FetchOne(id) : users' = ReceiveResult(row, zone).users
    /\ UNCHANGED <<hostOffset, now, pc, author, link_id,
                   instance, slept, reply, started, terminal, error>>
    /\ UNCHANGED <<textVars, reactionVars, stormVars>>

(* ---------- a member deletes the placeholder the waiter owns ---------- *)
UserDeletesReply(m) ==
    /\ reply[m] = "placeholder"
    /\ pc[m] \notin {"done", "failed"}
    /\ reply' = [reply EXCEPT ![m] = "deleted"]
    /\ UNCHANGED <<hostOffset, now, users, pc, author,
                   link_id, instance, slept, started,
                   terminal, error>>
    /\ UNCHANGED <<textVars, reactionVars, stormVars>>

Next ==
    \/ Tick
    \/ \E m \in Msgs, u \in UserIds : MessageCreate(m, u)
    \/ \E m \in Msgs : GetUser(m)
    \/ \E m \in Msgs : RespondEmbed(m)
    \/ \E m \in Msgs : RespondPlaceholder(m)
    \/ \E m \in Msgs, id \in LinkIds : RegisterSelect(m, id)
    \/ \E m \in Msgs : RegisterGet(m)
    \/ \E m \in Msgs : RegisterCommit(m)
    \/ \E m \in Msgs : SendLink(m)
    \/ \E m \in Msgs : Poll(m)
    \/ \E u \in UserIds : Deregister(u)
    \/ \E id \in LinkIds, zone \in Zones : ReceiveTimezone(id, zone)
    \/ \E m \in Msgs : UserDeletesReply(m)

Spec == Init /\ [][Next]_vars

(* ====================================================================== *)
(*        the text path of one message: extraction, parsing,              *)
(*        conversion and the reply of time_message_handler                *)
(* ====================================================================== *)
\* number of fragments a message text is put together from
MaxFragments == 3

\* character classes of rgx_dt_markers
\* [0-9]
Digit == {"0", "1", "2", "3", "4", "5", "6", "7", "8", "9"}
Lower == {"a", "b", "c", "d", "e", "f", "g", "h", "i", "j", "k", "l", "m",
          "n", "o", "p", "q", "r", "s", "t", "u", "v", "w", "x", "y", "z"}
Upper == {"A", "B", "C", "D", "E", "F", "G", "H", "I", "J", "K", "L", "M",
          "N", "O", "P", "Q", "R", "S", "T", "U", "V", "W", "X", "Y", "Z"}
\* [a-zA-Z]
Letter == Lower \cup Upper
\* [a-zA-Z0-9_.]
NameChar == Letter \cup Digit \cup {"_", "."}

\* pieces of message text, each a sequence of characters: a time in
\* brackets, mentions of a user (two forms), a role and a channel, a custom
\* and an animated emoji, the rendered time tags of an instant after and of
\* one before 1970, "<!1>", an http link and an ftp link in brackets, a lone
\* "<", a lone ">" and plain words
Fragments ==
    { <<"<", "6", "p", "m", ">">>,
      <<"<", "@", "1", ">", "<", "@", "!", "1", ">",
        "<", "@", "&", "1", ">", "<", "#", "1", ">">>,
      <<"<", ":", "o", "k", ":", "1", ">",
        "<", "a", ":", "o", "k", ":", "1", ">">>,
      <<"<", "t", ":", "1", ":", "t", ">">>,
      <<"<", "t", ":", "-", "1", ":", "t", ">">>,
      <<"<", "!", "1", ">">>,
      <<"<", "h", "t", "t", "p", ":", "/", "/", "x", ">">>,
      <<"<", "f", "t", "p", ":", "/", "/", "x", ">">>,
      <<"<">>,
      <<">">>,
      <<"6", "p", "m">> }

\* the texts of at most n fragments
RECURSIVE Concats(_)
Concats(n) ==
    IF n = 0 THEN { << >> }
    ELSE Concats(n - 1) \cup {t \o f : t \in Concats(n - 1), f \in Fragments}

Texts == Concats(MaxFragments)

\* zone names a registered author of the followed message may have; the
\* clocks of America/Mazatlan went from UTC-8 to UTC-7 at
\* 1970-01-01T08:00:00Z, from 00:00 to 01:00 on the wall
TextZones == {"America/New_York", "Asia/Kolkata", "America/Mazatlan"}

\* what the tz column may hold besides: web.py stores the "tz" of the POST
\* body as it comes; "local" is not a zone name but an expression Arrow's
\* timezone parser knows, "Mars/Olympus" is a name of no zone
OtherStoredZones == {"local", "Mars/Olympus"}

\* naive datetimes dateparser may return, in milliseconds of wall-clock time
\* after 1970-01-01T00:00:00: 1970-01-01T18:00:00, 1969-12-30T23:59:58.5
\* and 1970-01-01T00:30:00
Instants == {64800000, 0 - 86401500, 1800000}

\* what dateparser.parse does with one candidate: a datetime, None, a
\* value that is neither, or an exception
ParserOutcomes ==
    {[kind |-> "datetime", ms |-> t] : t \in Instants}
        \cup {[kind |-> k, ms |-> 0] : k \in {"None", "other", "raise"}}

\* ---- rgx_dt_markers ----
\* s has the character c at index i
At(s, i, c) == i >= 1 /\ i <= Len(s) /\ s[i] = c

\* s has a character of class C at index i
InClass(s, i, C) == i >= 1 /\ i <= Len(s) /\ s[i] \in C

\* the index after the longest run of characters of class C starting at i
RECURSIVE RunEnd(_, _, _)
RunEnd(s, i, C) == IF InClass(s, i, C) THEN RunEnd(s, i + 1, C) ELSE i

\* [0-9]+> at index i
DigitsThenClose(s, i) ==
    LET j == RunEnd(s, i, Digit) IN j > i /\ At(s, j, ">")

\* <(@|!|#|@!|@&)[0-9]+> at index i
MentionAt(s, i) ==
    /\ At(s, i, "<")
    /\ \/ InClass(s, i + 1, {"@", "!", "#"}) /\ DigitsThenClose(s, i + 2)
       \/ /\ At(s, i + 1, "@")
          /\ InClass(s, i + 2, {"!", "&"})
          /\ DigitsThenClose(s, i + 3)

\* :[a-zA-Z0-9_.]{2,32}:[0-9]+> at index k
EmojiTailAt(s, k) ==
    LET e == RunEnd(s, k + 1, NameChar) IN
        /\ At(s, k, ":")
        /\ e - (k + 1) >= 2
        /\ e - (k + 1) <= 32
        /\ At(s, e, ":")
        /\ DigitsThenClose(s, e + 1)

\* <a{0,1}:[a-zA-Z0-9_.]{2,32}:[0-9]+> at index i
EmojiAt(s, i) ==
    /\ At(s, i, "<")
    /\ \/ EmojiTailAt(s, i + 1)
       \/ At(s, i + 1, "a") /\ EmojiTailAt(s, i + 2)

\* <t:[0-9]+:[a-zA-Z]{0,1}> at index i
TimeTagAt(s, i) ==
    LET j == RunEnd(s, i + 3, Digit) IN
        /\ At(s, i, "<")
        /\ At(s, i + 1, "t")
        /\ At(s, i + 2, ":")
        /\ j > i + 3
        /\ At(s, j, ":")
        /\ \/ At(s, j + 1, ">")
           \/ InClass(s, j + 1, Letter) /\ At(s, j + 2, ">")

\* the alternatives inside the negative lookahead (?!...)
DiscordElementAt(s, i) == MentionAt(s, i) \/ EmojiAt(s, i) \/ TimeTagAt(s, i)

\* index of the first ">" at or after i, 0 when there is none
RECURSIVE NextClose(_, _)
NextClose(s, i) ==
    IF i > Len(s) THEN 0
    ELSE IF s[i] = ">" THEN i
    ELSE NextClose(s, i + 1)

\* (<[^>]+>) at index i: "<", one or more characters other than ">", ">"
BracketAt(s, i) == At(s, i, "<") /\ NextClose(s, i + 1) > i + 1

\* rgx_dt_markers matches at index i, and where that match ends
MarkerAt(s, i) == ~DiscordElementAt(s, i) /\ BracketAt(s, i)
MarkerEnd(s, i) == NextClose(s, i + 1)

\* rgx_dt_markers.findall(text), second group of every match
RECURSIVE FindAllFrom(_, _)
FindAllFrom(s, i) ==
    IF i > Len(s) THEN << >>
    ELSE IF MarkerAt(s, i)
    THEN <<SubSeq(s, i, MarkerEnd(s, i))>> \o FindAllFrom(s, MarkerEnd(s, i) + 1)
    ELSE FindAllFrom(s, i + 1)

FindAll(s) == FindAllFrom(s, 1)

\* index of the first match at or after i, 0 when there is none
RECURSIVE FirstMarker(_, _)
FirstMarker(s, i) ==
    IF i > Len(s) THEN 0
    ELSE IF MarkerAt(s, i) THEN i
    ELSE FirstMarker(s, i + 1)

\* rgx_dt_markers.sub(time, reply, count=1)
SubOnce(time, s) ==
    LET i == FirstMarker(s, 1) IN
        IF i = 0 THEN s
        ELSE SubSeq(s, 1, i - 1) \o time \o SubSeq(s, MarkerEnd(s, i) + 1, Len(s))

\* ---- _time_list_from_string ----
\* time[1:-1]
StripBrackets(t) == SubSeq(t, 2, Len(t) - 1)

\* time.startswith(prefix)
StartsWith(t, prefix) ==
    Len(t) >= Len(prefix) /\ SubSeq(t, 1, Len(prefix)) = prefix

\* [time for time in time_list if not time.startswith("http")]
IgnoreLinks(l) ==
    SelectSeq(l, LAMBDA t : ~StartsWith(t, <<"h", "t", "t", "p">>))

\* lines 90-95: the matches with their angle brackets removed
CandidateList(s) == [i \in 1..Len(FindAll(s)) |-> StripBrackets(FindAll(s)[i])]

\* lines 108-110: time != None, isinstance(time, dt.datetime)
UnderstoodOnly(l) == SelectSeq(l, LAMBDA r : r.kind = "datetime")

\* ---- _convert_time_list_fm_user ----
\* Arrow.fromdatetime(time, tz) with tz a str: Arrow's timezone parser
\* returns tzlocal() for "local", the zone of that name when the zone
\* database has one, and raises ParserError otherwise
ParsesAsZone(tz) == tz \in TextZones \cup {"local"}

\* utcoffset() of the parsed tzinfo for the naive wall-clock instant ms
\* (fold = 0), in milliseconds.  New York and Kolkata kept one offset
\* through the modelled instants; a wall-clock reading of Mazatlan before
\* 01:00 of 1970-01-01 gets the offset in force before the change, also
\* the readings from 00:00 to 01:00 that the wall clock skipped; the host
\* zone is hostOffset units of 10 s east of UTC.
UtcOffset(ms, tz) ==
    CASE tz = "America/New_York" -> 0 - 18000000
      [] tz = "Asia/Kolkata" -> 19800000
      [] tz = "America/Mazatlan" ->
             IF ms < 3600000 THEN 0 - 28800000 ELSE 0 - 25200000
      [] tz = "local" -> hostOffset * 10000

\* conversion that adds the offset instead of taking it off (mutant of
\* ToUtc)
ToUtcOffsetAdded(ms, tz) == ms + UtcOffset(ms, tz)

\* Arrow.fromdatetime(time, tz).to("UTC"), as milliseconds after the epoch
ToUtc(ms, tz) == ms - UtcOffset(ms, tz)

\* int((time - Arrow(1970, 1, 1)).total_seconds()): int() drops the
\* fraction, rounding toward zero
UnixTime(utc_ms) ==
    IF utc_ms >= 0 THEN utc_ms \div 1000 ELSE 0 - ((0 - utc_ms) \div 1000)

\* str(n) of an int
DigitChars == <<"0", "1", "2", "3", "4", "5", "6", "7", "8", "9">>

RECURSIVE NatToChars(_)
NatToChars(n) ==
    IF n < 10 THEN <<DigitChars[n + 1]>>
    ELSE NatToChars(n \div 10) \o <<DigitChars[(n % 10) + 1]>>

IntToChars(n) == IF n < 0 THEN <<"-">> \o NatToChars(0 - n) ELSE NatToChars(n)

\* "<t:" + str(time) + ":t>"
DiscordTime(n) == <<"<", "t", ":">> \o IntToChars(n) \o <<":", "t", ">">>

ConvertTimeList(tz, l) ==
    [i \in 1..Len(l) |-> DiscordTime(UnixTime(ToUtc(l[i].ms, tz)))]

\* ---- _embed_from_user_times_and_text ----
\* for time in time_list: reply = rgx_dt_markers.sub(time, reply, count=1)
RECURSIVE SubstituteAll(_, _)
SubstituteAll(l, s) ==
    IF l = << >> THEN s ELSE SubstituteAll(Tail(l), SubOnce(Head(l), s))

EmbedFromUserTimesAndText(tz, l, text) ==
    SubstituteAll(ConvertTimeList(tz, l), text)

\* ---- time_message_handler on the followed message ----
\* the author of the followed message is the author of handler task 1
TextAuthor == author[1]

\* the directory when the message arrives: no record of the author, a
\* record with no zone, or a record with a zone
TextUserTables ==
    { [x \in {} |-> NewUser("")] }
        \cup { [x \in {u} |-> [tz |-> z, update_id |-> id, update_dt |-> 0]] :
                  u \in {MaxUsers}, z \in {""} \cup TextZones \cup OtherStoredZones,
                  id \in {LINK_ID_START} }

InitText ==
    /\ hostOffset = 0
    /\ now = 0
    /\ users \in TextUserTables
    /\ pc = [m \in Msgs |-> "idle"]
    /\ author = [m \in Msgs |-> MaxUsers]
    /\ link_id = [m \in Msgs |-> NoLinkId]
    /\ instance = [m \in Msgs |-> NoInstance]
    /\ slept = [m \in Msgs |-> FALSE]
    /\ reply = [m \in Msgs |-> "none"]
    /\ started = [m \in Msgs |-> 0]
    /\ terminal = [m \in Msgs |-> "none"]
    /\ error = [m \in Msgs |-> "none"]
    /\ content \in Texts
    /\ stage = "received"
    /\ time_list = << >>
    /\ embed = << >>
    /\ guild = "untracked"
    /\ reactions = [m \in Msgs |-> {}]
    /\ react_events = {}
    /\ handled = {}
    /\ reactors_register = << >>
    /\ requested = << >>
    /\ calls = 0
    /\ storm_error = "none"
    /\ stormed = {}

\* lines 271-274 and 89-97: an empty message is dropped; else findall, the
\* brackets removed, the links ignored
FindCandidates ==
    /\ stage = "received"
    /\ IF content = << >>
       THEN /\ stage' = "returned"
            /\ UNCHANGED time_list
       ELSE /\ stage' = "candidates"
            /\ time_list' = IgnoreLinks(CandidateList(content))
    /\ UNCHANGED <<content, embed>>
    /\ UNCHANGED <<handshakeVars, reactionVars, stormVars>>

\* the values of dateparser.parse, each remembering the place in the list
\* of candidates of the text it was parsed from (`cand`, which the
\* datetime of the program does not carry: it is kept for the claims)
Remembering(results) ==
    [j \in 1..Len(results) |->
        [kind |-> results[j].kind, ms |-> results[j].ms, cand |-> j]]

\* lines 98-111: dateparser.parse for every candidate in turn, then the two
\* filters; an exception of the parser leaves the list comprehension
ParseCandidates ==
    /\ stage = "candidates"
    /\ \E results \in [1..Len(time_list) -> ParserOutcomes] :
          IF \E i \in 1..Len(time_list) : results[i].kind = "raise"
          THEN /\ stage' = "raised"
               /\ time_list' = << >>
          ELSE /\ stage' = "parsed"
               /\ time_list' = UnderstoodOnly(Remembering(results))
    /\ UNCHANGED <<content, embed>>
    /\ UNCHANGED <<handshakeVars, reactionVars, stormVars>>

\* the handler that goes on with an empty time_list (mutant of NoTimes)
NoTimesNeverSkips(l) == FALSE

\* len(time_list) == 0
NoTimes(l) == Len(l) = 0

\* lines 277-286: no time understood: return; else the lookup and the
\* branch on is_user_not_registered
LookupAuthor ==
    /\ stage = "parsed"
    /\ stage' = IF NoTimes(time_list) THEN "returned"
                ELSE IF IsUserNotRegistered(TextAuthor) THEN "handshake"
                ELSE "convert"
    /\ UNCHANGED <<content, time_list, embed>>
    /\ UNCHANGED <<handshakeVars, reactionVars, stormVars>>

\* lines 314-316: the embed is built and sent as the one reply; the
\* ParserError of Arrow.fromdatetime leaves the handler before any reply
ReplyConverted ==
    /\ stage = "convert"
    /\ IF ParsesAsZone(users[TextAuthor].tz)
       THEN /\ embed' = EmbedFromUserTimesAndText(users[TextAuthor].tz,
                                                  time_list, content)
            /\ stage' = "replied"
       ELSE /\ stage' = "zone_error"
            /\ UNCHANGED embed
    /\ UNCHANGED <<content, time_list>>
    /\ UNCHANGED <<handshakeVars, reactionVars, stormVars>>

NextText ==
    \/ FindCandidates
    \/ ParseCandidates
    \/ LookupAuthor
    \/ ReplyConverted

SpecText == InitText /\ [][NextText]_vars

(* ====================================================================== *)
(*     reactions on a reply of the bot: GuildReactionAddEvent and the     *)
(*     listeners bot.react_to_guild_reactions registers for it            *)
(* ====================================================================== *)
\* cfg.MESSAGE_DELETE_REACTION (U+274C) and cfg.MESSAGE_REFRESH_REACTION
\* (U+1F504), by their names; the slice of pizza emoji (U+1F355)
MESSAGE_DELETE_REACTION == "cross_mark"
MESSAGE_REFRESH_REACTION == "arrows_counterclockwise"
PIZZA == "pizza"
EmojiNames == {MESSAGE_DELETE_REACTION, MESSAGE_REFRESH_REACTION, PIZZA}

\* the user id of the bot itself
Bot == MaxUsers + 1

\* cfg.pizza_servers holds the guild or it does not
GuildKinds == {"pizza_server", "other_server"}

\* on_lb_start: the trigger_regex of the listeners registered with
\* react_to_guild_reactions that every member can set off (pizza, taco and
\* the forbidden emoji); of the modelled names only the slice of pizza
\* matches one of them
TriggerMatches(emoji_name) == emoji_name = PIZZA

\* the reaction_handler closures: allowed_servers, then
\* trigger_regex.search(emoji_name), then msg.add_reaction(reaction)
ReactsBack(ev) == guild = "pizza_server" /\ TriggerMatches(ev.emoji)

\* the directory, the handler task and its reply after a registered author
\* has been answered at once (time_message_handler's else branch)
InitReact ==
    /\ hostOffset = 0
    /\ now = 0
    /\ \E a \in UserIds :
          /\ author = [m \in Msgs |-> IF m = 1 THEN a ELSE NoAuthor]
          /\ users = [x \in {a} |-> [tz |-> "America/New_York",
                                     update_id |-> LINK_ID_START,
                                     update_dt |-> 0]]
    /\ pc = [m \in Msgs |-> IF m = 1 THEN "done" ELSE "idle"]
    /\ link_id = [m \in Msgs |-> NoLinkId]
    /\ instance = [m \in Msgs |-> NoInstance]
    /\ slept = [m \in Msgs |-> FALSE]
    /\ reply = [m \in Msgs |-> IF m = 1 THEN "converted" ELSE "none"]
    /\ started = [m \in Msgs |-> 0]
    /\ terminal = [m \in Msgs |-> "none"]
    /\ error = [m \in Msgs |-> "none"]
    /\ content = << >>
    /\ stage = "untracked"
    /\ time_list = << >>
    /\ embed = << >>
    /\ guild \in GuildKinds
    /\ reactions = [m \in Msgs |-> {}]
    /\ react_events = {}
    /\ handled = {}
    /\ reactors_register = << >>
    /\ requested = << >>
    /\ calls = 0
    /\ storm_error = "none"
    /\ stormed = {}

\* a member of the guild adds the reaction e to the reply of the bot; the
\* gateway dispatches a GuildReactionAddEvent
ReactionAdd(m, u, e) ==
    /\ reply[m] \in {"placeholder", "converted"}
    /\ [by |-> u, emoji |-> e] \notin reactions[m]
    /\ reactions' = [reactions EXCEPT ![m] = @ \cup {[by |-> u, emoji |-> e]}]
    /\ react_events' = react_events \cup {[m |-> m, by |-> u, emoji |-> e]}
    /\ UNCHANGED <<guild, handled>>
    /\ UNCHANGED <<handshakeVars, textVars, stormVars>>

\* every listener of GuildReactionAddEvent has run for the event: the
\* reaction_handler closures of bot.react_to_guild_reactions are the only
\* ones.  A reaction the bot adds is dispatched as an event of its own.
ReactionHandler(ev) ==
    /\ ev \in react_events
    /\ handled' = handled \cup {ev}
    /\ IF ReactsBack(ev)
       THEN LET own == [by |-> Bot, emoji |-> ev.emoji] IN
            /\ reactions' = [reactions EXCEPT ![ev.m] = @ \cup {own}]
            /\ react_events' =
                   (react_events \ {ev})
                       \cup (IF own \in reactions[ev.m] THEN {}
                             ELSE {[m |-> ev.m, by |-> Bot, emoji |-> ev.emoji]})
       ELSE /\ react_events' = react_events \ {ev}
            /\ UNCHANGED reactions
    /\ UNCHANGED guild
    /\ UNCHANGED <<handshakeVars, textVars, stormVars>>

NextReact ==
    \/ \E m \in Msgs, u \in UserIds, e \in EmojiNames : ReactionAdd(m, u, e)
    \/ \E ev \in react_events : ReactionHandler(ev)

SpecReact == InitReact /\ [][NextReact]_vars

(* ====================================================================== *)
(*     the registry of reaction timers: bot.reactors_register,            *)
(*     react_storm_user_for, undo_react_storm_user and _user_reactor      *)
(* ====================================================================== *)
\* number of calls of the two operations in one behaviour
MaxCalls == 4
\* the clock of this part stops after this many units of 10 s
MaxStormTime == 2

\* reactions used as keys: the custom emoji cfg.PILK as bot.fetch_emoji
\* returns it (a h.KnownCustomEmoji) and a unicode emoji given as a str
StormReactions == {"PILK", PIZZA}

\* isinstance(reaction, h.KnownCustomEmoji)
IsKnownCustomEmoji(reaction) == reaction = "PILK"

\* the `time` arguments, in units of 10 s: dt.timedelta(minutes=2),
\* dt.timedelta(hours=1) and dt.timedelta(minutes=int(arg2)) with arg2 = -1
StormDurations == {12, 360, 0 - 6}

StormPairs == StormReactions \X UserIds

\* react_storm_user_for that stores the new time whatever the old one was
\* (mutant of NewExpiry)
NewExpiryOverwrites(user_dict, user_id, react_till) == react_till

\* try: max(self.reactors_register[reaction][user_id], react_till)
\* except KeyError: react_till
NewExpiry(user_dict, user_id, react_till) ==
    IF user_id \in DOMAIN user_dict
    THEN IF user_dict[user_id] >= react_till THEN user_dict[user_id]
         ELSE react_till
    ELSE react_till

\* if reaction not in self.reactors_register:
\*     self.reactors_register[reaction] = {}
WithKey(register, reaction) ==
    [r \in DOMAIN register \cup {reaction} |->
        IF r \in DOMAIN register THEN register[r] ELSE << >>]

InitStorm ==
    /\ hostOffset = 0
    /\ now = 0
    /\ users = << >>
    /\ pc = [m \in Msgs |-> "idle"]
    /\ author = [m \in Msgs |-> NoAuthor]
    /\ link_id = [m \in Msgs |-> NoLinkId]
    /\ instance = [m \in Msgs |-> NoInstance]
    /\ slept = [m \in Msgs |-> FALSE]
    /\ reply = [m \in Msgs |-> "none"]
    /\ started = [m \in Msgs |-> 0]
    /\ terminal = [m \in Msgs |-> "none"]
    /\ error = [m \in Msgs |-> "none"]
    /\ content = << >>
    /\ stage = "untracked"
    /\ time_list = << >>
    /\ embed = << >>
    /\ guild \in GuildKinds
    /\ reactions = [m \in Msgs |-> {}]
    /\ react_events = {}
    /\ handled = {}
    /\ reactors_register = << >>
    /\ requested = [p \in StormPairs |-> {}]
    /\ calls = 0
    /\ storm_error = "none"
    /\ stormed = {}

\* react_storm_user_for(time, user, reaction): no await between its reads
\* and its writes
ReactStormUserFor(time, user_id, reaction) ==
    /\ calls < MaxCalls
    /\ LET react_till == now + time
           register == WithKey(reactors_register, reaction)
           user_dict == register[reaction]
       IN  /\ reactors_register' =
                  [register EXCEPT ![reaction] =
                      [u \in DOMAIN user_dict \cup {user_id} |->
                          IF u = user_id
                          THEN NewExpiry(user_dict, user_id, react_till)
                          ELSE user_dict[u]]]
           /\ requested' = [requested EXCEPT ![<<reaction, user_id>>] =
                                                  @ \cup {react_till}]
    /\ calls' = calls + 1
    /\ storm_error' = "none"
    /\ UNCHANGED stormed
    /\ UNCHANGED <<handshakeVars, textVars, reactionVars>>

\* undo_react_storm_user(user, reaction).  Emoji objects are equal when
\* their ids are, so a key with the guild and id of `reaction` is `reaction`:
\* with `reaction` not a key the list of (r.guild_id, r.id) never holds it,
\* and building that list raises AttributeError on a key that is a str.
UndoReactStormUser(user_id, reaction) ==
    /\ calls < MaxCalls
    /\ IF reaction \in DOMAIN reactors_register
       THEN /\ reactors_register' =
                   [reactors_register EXCEPT ![reaction] =
                       [u \in DOMAIN @ \ {user_id} |-> @[u]]]
            /\ storm_error' = "none"
       ELSE /\ UNCHANGED reactors_register
            /\ storm_error' =
                   IF /\ IsKnownCustomEmoji(reaction)
                      /\ \E r \in DOMAIN reactors_register : ~IsKnownCustomEmoji(r)
                   THEN "AttributeError"
                   ELSE "none"
    /\ requested' = [requested EXCEPT ![<<reaction, user_id>>] = {}]
    /\ calls' = calls + 1
    /\ UNCHANGED stormed
    /\ UNCHANGED <<handshakeVars, textVars, reactionVars>>

\* _user_reactor on a message of user_id: the reactions whose timer for the
\* author has not run out are added to the message
UserReactor(user_id) ==
    /\ stormed' = {r \in DOMAIN reactors_register :
                      /\ guild = "pizza_server"
                      /\ user_id \in DOMAIN reactors_register[r]
                      /\ now < reactors_register[r][user_id]}
    /\ UNCHANGED <<reactors_register, requested, calls, storm_error>>
    /\ UNCHANGED <<handshakeVars, textVars, reactionVars>>

\* 10 seconds pass
StormTick ==
    /\ now < MaxStormTime
    /\ now' = now + POLL_SLEEP
    /\ UNCHANGED <<hostOffset, users, pc, author, link_id, instance, slept,
                   reply, started, terminal, error>>
    /\ UNCHANGED <<textVars, reactionVars, stormVars>>

NextStorm ==
    \/ \E t \in StormDurations, u \in UserIds, r \in StormReactions :
           ReactStormUserFor(t, u, r)
    \/ \E u \in UserIds, r \in StormReactions : UndoReactStormUser(u, r)
    \/ \E u \in UserIds : UserReactor(u)
    \/ StormTick

SpecStorm == InitStorm /\ [][NextStorm]_vars

(* ====================================================================== *)
(*                               claims                                   *)
(* ====================================================================== *)
\* The vocabulary of the specification's UserRecord, over the table rows.
timezone(u) == users[u].tz
pending_token(u) == users[u].update_id
pending_since(u) == users[u].update_dt
\* the record of u is inside its validity window
TokenLive(u) == now - pending_since(u) <= REGISTRATION_TIMEOUT
\* the records that hold token id
Holders(id) == {u \in DOMAIN users : pending_token(u) = id}

\* C1: in every reachable state, under any interleaving of concurrent
\* register_user calls, no two user records hold the same pending token
\* while both are inside their validity window.
C1_NoSharedLiveToken ==
    \A u \in DOMAIN users : \A v \in DOMAIN users :
        (u # v /\ TokenLive(u) /\ TokenLive(v))
            => pending_token(u) # pending_token(v)

\* C2: a confirmation call carrying token id, made while some user record
\* holds id inside its validity window, succeeds and sets the timezone of
\* that record to the submitted zone, whatever the other records hold.
C2_LiveTokenConfirms ==
    \A id \in LinkIds : \A zone \in Zones : \A u \in Holders(id) :
        TokenLive(u)
            => \A row \in FetchOne(id) :
                   /\ ReceiveResult(row, zone).status = HTTP_OK
                   /\ ReceiveResult(row, zone).users[u].tz = zone

\* C3: a confirmation call whose token is held by no record, or whose
\* matching record has now - pending_since > REGISTRATION_TIMEOUT, is
\* rejected with 401 and leaves every field of every record unchanged.
C3_RejectedCallChangesNothing ==
    \A id \in LinkIds : \A zone \in Zones : \A row \in FetchOne(id) :
        (Holders(id) = {} \/ (row # NoUser /\ ~TokenLive(row)))
            => /\ ReceiveResult(row, zone).status = HTTP_UNAUTHORIZED
               /\ ReceiveResult(row, zone).users = users

\* C3 witness: on a host whose clock is UTC a handshake has run out (its
\* waiter removed the placeholder) and the record still holds the token,
\* so a confirmation carrying it meets an expired row.
C3_Witness ==
    \E m \in Msgs :
        /\ hostOffset = 0
        /\ terminal[m] = "delete"
        /\ author[m] \in DOMAIN users
        /\ pending_since(author[m]) = started[m]
        /\ ~TokenLive(author[m])
        /\ Holders(pending_token(author[m])) = {author[m]}

\* C4: a record's timezone changes from empty to non-empty only through a
\* confirmation call that carries that record's current token while
\* now - pending_since <= REGISTRATION_TIMEOUT; no bot-side step sets it,
\* and an identity without a record never becomes registered in one step.
BecomesRegistered(u) ==
    /\ u \in DOMAIN users'
    /\ users'[u].tz # ""
    /\ (u \in DOMAIN users => timezone(u) = "")

C4_OnlyConfirmationRegisters ==
    [][\A u \in UserIds :
          BecomesRegistered(u)
              => /\ u \in DOMAIN users
                 /\ TokenLive(u)
                 /\ \E zone \in Zones :
                        ReceiveTimezone(pending_token(u), zone)]_vars

\* C4 witness: a handshake went UNREGISTERED -> TOKEN_ISSUED -> CONFIRMED:
\* the waiter of an unregistered author saw the zone and edited its reply.
C4_Witness ==
    \E m \in Msgs :
        /\ terminal[m] = "edit"
        /\ author[m] \in DOMAIN users
        /\ timezone(author[m]) \in Zones

\* C5: if the confirmation for an unregistered requester succeeds within
\* the registration timeout, the waiter of that message edits its
\* placeholder into the converted content and never deletes it.  Stated on
\* the step the claim forbids: no waiter issues response_msg.delete() while
\* the record of its author carries the confirmed zone.
C5_ConfirmedWaiterNeverDeletes ==
    [][\A m \in Msgs :
          (terminal[m] = "none" /\ terminal'[m] = "delete")
              => IsUserNotRegistered(author[m])]_vars

\* C6: if no confirmation succeeds for the requester, the waiter deletes
\* its placeholder and stops at the first poll at which the time elapsed
\* since that waiter's own handshake began exceeds REGISTRATION_TIMEOUT, and
\* at no earlier poll, whatever the requester does during the wait.
C6_DeleteAtOwnDeadline ==
    [][\A m \in Msgs :
          (Poll(m) /\ IsUserNotRegistered(author[m]))
              => ((now - started[m] > REGISTRATION_TIMEOUT)
                      <=> (terminal'[m] = "delete" /\ pc'[m] # "sleep"))]_vars

\* C7: when a waiter that was started has stopped, it has performed exactly
\* one terminal action on its own reply: one edit or one delete.
WaiterStarted(m) ==
    \/ pc[m] = "sleep"
    \/ terminal[m] # "none"
    \/ error[m] \in {"AttributeError", "NotFoundError"}

C7_StoppedWaiterActedOnce ==
    \A m \in Msgs :
        (WaiterStarted(m) /\ pc[m] \in {"done", "failed"})
            => terminal[m] \in {"edit", "delete"}

\* C8: register_user for an identity with no record creates a record with
\* empty timezone, the newly drawn token and pending_since = now; for an
\* identity that already has a record it overwrites pending_token with the
\* new token, sets pending_since = now and leaves the timezone unchanged.
\* Stated on the step that ends register_user's second transaction.
C8_RegisterUserWrites ==
    [][\A m \in Msgs :
          RegisterCommit(m)
              => /\ author[m] \in DOMAIN users'
                 /\ users'[author[m]].update_id = link_id[m]
                 /\ users'[author[m]].update_dt = now
                 /\ users'[author[m]].tz =
                        IF author[m] \in DOMAIN users
                        THEN timezone(author[m]) ELSE ""]_vars

\* C9: when register_user runs for an identity that is already pending,
\* the window restarts at the re-issue time, the new token is accepted (it
\* is inside its window and every lookup by it succeeds), and the token the
\* identity held before no longer confirms that identity.
ReissueWhilePending(m) ==
    /\ RegisterCommit(m)
    /\ author[m] \in DOMAIN users
    /\ TokenLive(author[m])
    /\ pc'[m] = "send_dm"

C10_TokenOnlyWhileOutstanding ==
    hostOffset = 0 =>
        \A u \in DOMAIN users :
            pending_token(u) # NoLinkId => (timezone(u) = "" /\ TokenLive(u))

\* C10 (amended): every record holds a non-null pending_token from the
\* register_user that created it until /unregister removes the row; it is
\* cleared neither by a successful confirmation nor by expiry (a stale
\* token is only refused by the endpoint, see C3).
C10_TokenNeverCleared ==
    \A u \in DOMAIN users : pending_token(u) \in LinkIds

\* C10 witness: one record is confirmed and another has expired
\* unconfirmed, and both still hold their tokens.
C10_Witness ==
    \E u \in DOMAIN users : \E v \in DOMAIN users :
        /\ timezone(u) \in Zones /\ pending_token(u) \in LinkIds
        /\ timezone(v) = "" /\ ~TokenLive(v) /\ pending_token(v) \in LinkIds

\* C11: for a message with a parsed time from an unregistered author the
\* steps occur in this order: the placeholder is posted, the token is
\* persisted with the current timestamp, the link is sent to the author, and
\* only then polling begins; the token in the link (register_user's link_id
\* when the DM is sent) is the token the same call persisted.
Persists(m) == RegisterCommit(m) /\ pc'[m] = "send_dm"

C11_HandshakeOrder ==
    [][\A m \in Msgs :
          /\ Persists(m)
                => /\ reply[m] # "none"
                   /\ users'[author[m]].update_id = link_id[m]
                   /\ users'[author[m]].update_dt = now
          /\ (pc'[m] = "send_dm" /\ pc[m] # "send_dm") => Persists(m)
          /\ (pc[m] = "send_dm" /\ pc'[m] = "send_dm")
                => link_id'[m] = link_id[m]
          /\ SendLink(m) => (pc[m] = "send_dm" /\ link_id[m] \in LinkIds)
          /\ (pc'[m] = "sleep" /\ pc[m] # "sleep") => SendLink(m)
          /\ Poll(m) => pc[m] = "sleep"]_vars

\* C13: if the placeholder has already been deleted when the waiter sees the
\* registered timezone, its edit attempt is a benign no-op: the not-found
\* outcome is swallowed, the handler ends normally, and neither the reply
\* nor the directory is touched by it then or afterwards.
C13_EditOfDeletedReplyIsBenign ==
    [][\A m \in Msgs :
          /\ (Poll(m) /\ PollOutcome(author[m]) = "edit" /\ reply[m] = "deleted")
                => /\ pc'[m] = "done"
                   /\ error'[m] = "none"
                   /\ reply'[m] = "deleted"
                   /\ users' = users
          /\ (pc[m] = "done" /\ terminal[m] = "edit")
                => /\ pc'[m] = "done"
                   /\ error'[m] = "none"
                   /\ reply'[m] = reply[m]
                   /\ terminal'[m] = "edit"]_vars

\* C13 witness: a waiter ended normally by an edit of a reply that a member
\* had deleted before.
C13_Witness ==
    \E m \in Msgs :
        /\ terminal[m] = "edit"
        /\ reply[m] = "deleted"
        /\ pc[m] = "done"
        /\ error[m] = "none"

\* C14: if the placeholder is already gone when the waiter reaches its
\* timeout, the delete attempt is caught locally and the handler ends
\* without an error.  Read on a host whose local clock is UTC.
C14_DeleteOfDeletedReplyIsCaught ==
    [][\A m \in Msgs :
          (hostOffset = 0 /\ Poll(m) /\ PollOutcome(author[m]) = "delete"
                          /\ reply[m] = "deleted")
              => (pc'[m] = "done" /\ error'[m] = "none")]_vars

\* C15: /unregister leaves no record for the identity and every other
\* record as it was (unregistering an identity without a record changes
\* nothing); no other step ever removes a record; and a message of an
\* identity without a record is answered by a fresh handshake.
C15_UnregisterRemovesOnlyThatRecord ==
    [][/\ \A u \in UserIds :
             Deregister(u)
                 => /\ u \notin DOMAIN users'
                    /\ DOMAIN users' = DOMAIN users \ {u}
                    /\ \A v \in DOMAIN users' : users'[v] = users[v]
       /\ (\E v \in DOMAIN users : v \notin DOMAIN users')
             => \E u \in UserIds : Deregister(u)
       /\ \A m \in Msgs :
             (GetUser(m) /\ author[m] \notin DOMAIN users)
                 => pc'[m] = "respond_placeholder"]_vars

\* C15 witness: on a UTC host an identity that had confirmed a zone (its
\* first waiter ended by an edit, inside the window) has unregistered, and
\* its next message, arriving after the window, finds no record and is in
\* a new handshake that creates the record afresh.
C15_Witness ==
    \E k \in Msgs : \E m \in Msgs :
        /\ hostOffset = 0
        /\ k < m
        /\ author[k] = author[m]
        /\ terminal[k] = "edit"
        /\ pc[m] = "commit"
        /\ started[m] = REGISTRATION_TIMEOUT + 1
        /\ instance[m].state = "new"
        /\ author[m] \notin DOMAIN users
        /\ reply[m] = "placeholder"

(* ---------------- claims about the text path (SpecText) --------------- *)
\* tz is the name of a zone of the zone database
ValidZoneName(tz) == tz \in {"America/New_York", "Asia/Kolkata", "America/Mazatlan"}

\* t occurs in s as a contiguous piece
Occurs(t, s) ==
    \E i \in 1..(Len(s) - Len(t) + 1) : SubSeq(s, i, i + Len(t) - 1) = t

\* C12: for an author whose record has a non-empty timezone, a message with
\* n >= 1 parsed times gets exactly one reply, at once, that contains the n
\* rendered time tags; no placeholder is posted, no link is sent and no
\* waiter is started.
C12_RegisteredAuthorGetsOneReply ==
    (/\ stage # "untracked"
     /\ TextAuthor \in DOMAIN users
     /\ timezone(TextAuthor) # "")
        => /\ stage # "handshake"
           /\ reply = [m \in Msgs |-> "none"]
           /\ link_id = [m \in Msgs |-> NoLinkId]
           /\ stage = "replied"
                 => /\ Len(time_list) >= 1
                    /\ \A i \in 1..Len(time_list) :
                           Occurs(ConvertTimeList(timezone(TextAuthor), time_list)[i],
                                  embed)

\* C16: for every message text that contains no '<...>' bracketed substring
\* extraction yields an empty list, and the handler sends no reply, looks
\* nobody up and starts no handshake.
HasBracketed(s) ==
    \E i \in 1..Len(s) : \E j \in 1..Len(s) :
        s[i] = "<" /\ s[j] = ">" /\ j > i + 1

C16_NoBracketsNoReply ==
    (stage # "untracked" /\ ~HasBracketed(content))
        => /\ stage \in {"received", "candidates", "parsed", "returned"}
           /\ CandidateList(content) = << >>
           /\ time_list = << >>
           /\ embed = << >>
           /\ reply = [m \in Msgs |-> "none"]

\* C16 witness: a text with both angle characters but nothing bracketed has
\* been through extraction, and the handler has returned.
C16_Witness ==
    /\ stage = "returned"
    /\ ~HasBracketed(content)
    /\ \E i \in 1..Len(content) : content[i] = "<"
    /\ \E j \in 1..Len(content) : content[j] = ">"

\* The '<...>' substrings of a text, leftmost first and not overlapping,
\* and the forms of platform markup among them.
FirstCloseAfter(s, i) ==
    LET closes == {j \in (i + 1)..Len(s) : s[j] = ">"} IN
        IF closes = {} THEN 0
        ELSE CHOOSE j \in closes : \A k \in closes : j <= k

RECURSIVE BracketedFrom(_, _)
BracketedFrom(s, i) ==
    IF i > Len(s) THEN << >>
    ELSE IF s[i] = "<" /\ FirstCloseAfter(s, i) > i + 1
    THEN <<SubSeq(s, i, FirstCloseAfter(s, i))>>
             \o BracketedFrom(s, FirstCloseAfter(s, i) + 1)
    ELSE BracketedFrom(s, i + 1)

Bracketed(s) == BracketedFrom(s, 1)

After(x, n) == SubSeq(x, n + 1, Len(x))
AllDigits(x) == Len(x) >= 1 /\ \A k \in 1..Len(x) : x[k] \in Digit

\* <@N>, <@!N> (user), <@&N> (role), <#N> (channel)
IsMention(x) ==
    \E p \in {<<"@">>, <<"@", "!">>, <<"@", "&">>, <<"#">>} :
        StartsWith(x, p) /\ AllDigits(After(x, Len(p)))

\* <:name:N> and <a:name:N>, name of 2 to 32 letters, digits, underscores
IsEmoji(x) ==
    \E p \in {<<":">>, <<"a", ":">>} :
        /\ StartsWith(x, p)
        /\ \E k \in 1..Len(After(x, Len(p))) :
              LET r == After(x, Len(p)) IN
                  /\ r[k] = ":"
                  /\ k - 1 >= 2
                  /\ k - 1 <= 32
                  /\ \A j \in 1..(k - 1) : r[j] \in Letter \cup Digit \cup {"_"}
                  /\ AllDigits(After(r, k))

\* <t:N:s>, N an integer (negative before 1970), s one letter
IsInteger(x) == AllDigits(x) \/ (StartsWith(x, <<"-">>) /\ AllDigits(After(x, 1)))

IsRenderedTag(x) ==
    /\ StartsWith(x, <<"t", ":">>)
    /\ \E k \in 1..Len(After(x, 2)) :
          LET r == After(x, 2) IN
              /\ r[k] = ":"
              /\ IsInteger(SubSeq(r, 1, k - 1))
              /\ Len(r) = k + 1
              /\ r[k + 1] \in Letter

IsPlatformMarkup(b) ==
    LET x == StripBrackets(b) IN IsMention(x) \/ IsEmoji(x) \/ IsRenderedTag(x)

\* C17: platform markup (user, role and channel mentions, custom and
\* animated emoji, rendered time tags <t:N:s>) never becomes a candidate,
\* and every other '<...>' substring of the message does, bracket-stripped
\* and in message order.
C17_CandidatesAreTheOtherBrackets ==
    stage # "untracked"
        => LET others == SelectSeq(Bracketed(content),
                                   LAMBDA b : ~IsPlatformMarkup(b))
           IN  CandidateList(content)
                   = [i \in 1..Len(others) |-> StripBrackets(others[i])]

\* a scheme of letters followed by "://"
IsUrl(c) ==
    \E k \in 1..Len(c) :
        /\ \A j \in 1..k : c[j] \in Letter
        /\ StartsWith(After(c, k), <<":", "/", "/">>)

\* C18: every bracketed candidate whose content is a URL is excluded from
\* the candidate list and never reaches the parser, and the other
\* candidates of the same message are retained.
C18_UrlCandidatesExcluded ==
    stage = "candidates"
        => time_list = SelectSeq(CandidateList(content), LAMBDA c : ~IsUrl(c))

\* C19: when the parser raises or returns something that is not a datetime
\* for a candidate, that candidate alone is dropped: no exception leaves
\* _time_list_from_string, and what it returns are the datetimes parsed.
C19_ParserFailuresAreDropped ==
    /\ stage # "raised"
    /\ stage = "parsed"
          => \A i \in 1..Len(time_list) : time_list[i].kind = "datetime"

\* the UTC epoch second of a wall-clock instant of a zone: floor of the
\* seconds since 1970-01-01T00:00:00Z
EpochSecond(ms, tz) == (ms - UtcOffset(ms, tz)) \div 1000

\* C20: for every list of parsed instants and every valid source zone the
\* conversion returns a list of the same length whose i-th element is the
\* tag <t:E_i:t>, E_i the UTC epoch second of the i-th instant read as
\* wall-clock time in the zone.
C20_ConversionRendersEpochTags ==
    (stage = "convert" /\ ValidZoneName(timezone(TextAuthor)))
        => LET tz == timezone(TextAuthor)
               tags == ConvertTimeList(tz, time_list)
           IN  /\ Len(tags) = Len(time_list)
               /\ \A i \in 1..Len(time_list) :
                      tags[i] = <<"<", "t", ":">>
                                    \o IntToChars(EpochSecond(time_list[i].ms, tz))
                                    \o <<":", "t", ">">>

\* the integer written by a sequence of decimal digits with an optional
\* leading "-"
RECURSIVE DigitsValue(_)
DigitsValue(x) ==
    IF x = << >> THEN 0
    ELSE 10 * DigitsValue(SubSeq(x, 1, Len(x) - 1))
             + (CHOOSE d \in 0..9 : DigitChars[d + 1] = x[Len(x)])

IntegerValue(x) ==
    IF StartsWith(x, <<"-">>) THEN 0 - DigitsValue(After(x, 1))
    ELSE DigitsValue(x)

\* the epoch value embedded in a rendered tag "<t:E:t>"
EmbeddedEpoch(tag) == IntegerValue(SubSeq(tag, 4, Len(tag) - 3))

\* C21: for every instant, on either side of 1970-01-01T00:00:00Z and with
\* any sub-second part, the epoch value embedded in the rendered tag equals
\* floor(seconds since the Unix epoch): it is the one integer E with
\* E <= seconds < E + 1.
C21_EmbeddedEpochIsFloor ==
    (stage = "convert" /\ ValidZoneName(timezone(TextAuthor)))
        => LET tz == timezone(TextAuthor)
               tags == ConvertTimeList(tz, time_list)
           IN  \A i \in 1..Len(time_list) :
                   LET E == EmbeddedEpoch(tags[i])
                       utc_ms == time_list[i].ms - UtcOffset(time_list[i].ms, tz)
                   IN  /\ 1000 * E <= utc_ms
                       /\ utc_ms < 1000 * (E + 1)

\* The zone's wall clock: the offsets the zone has had, the offset in force
\* at a UTC instant, and the wall-clock reading of that instant.
ZoneOffsets(tz) ==
    CASE tz = "America/New_York" -> {0 - 18000000}
      [] tz = "Asia/Kolkata" -> {19800000}
      [] tz = "America/Mazatlan" -> {0 - 28800000, 0 - 25200000}

OffsetAt(utc_ms, tz) ==
    CASE tz = "America/New_York" -> 0 - 18000000
      [] tz = "Asia/Kolkata" -> 19800000
      [] tz = "America/Mazatlan" ->
             IF utc_ms < 28800000 THEN 0 - 28800000 ELSE 0 - 25200000

WallClock(utc_ms, tz) == utc_ms + OffsetAt(utc_ms, tz)

\* the wall clock of the zone shows the reading ms at some instant
ShownByWallClock(ms, tz) ==
    \E off \in ZoneOffsets(tz) : WallClock(ms - off, tz) = ms

\* the UTC instant of the i-th rendered tag, read back on the wall clock of
\* the zone
RoundTrip(i) ==
    LET tz == timezone(TextAuthor)
    IN  WallClock(1000 * EmbeddedEpoch(ConvertTimeList(tz, time_list)[i]), tz)

SameUpToSubSecond(a, b) == a - b < 1000 /\ b - a < 1000

\* C22: round trip: for every naive local instant and zone, attaching the
\* zone and converting to UTC as the engine does, then converting back to
\* that zone's wall-clock time, yields the original instant up to sub-second
\* truncation.
C22_RoundTripEveryInstant ==
    (stage = "convert" /\ ValidZoneName(timezone(TextAuthor)))
        => \A i \in 1..Len(time_list) :
               SameUpToSubSecond(RoundTrip(i), time_list[i].ms)

\* C22 as amended: the round trip yields the original instant, up to
\* sub-second truncation, for every naive local instant that the wall clock
\* of the zone shows at some moment; a reading the wall clock skipped
\* (00:00 to 01:00 of 1970-01-01 in America/Mazatlan) comes back changed.
C22_RoundTripShownInstants ==
    (stage = "convert" /\ ValidZoneName(timezone(TextAuthor)))
        => \A i \in 1..Len(time_list) :
               IF ShownByWallClock(time_list[i].ms, timezone(TextAuthor))
               THEN SameUpToSubSecond(RoundTrip(i), time_list[i].ms)
               ELSE ~SameUpToSubSecond(RoundTrip(i), time_list[i].ms)

\* C22 witness: instants before and after the epoch, one of them with a
\* sub-second part, and a skipped reading are about to be converted in a
\* zone whose offset changes between them.
C22_Witness ==
    /\ stage = "convert"
    /\ timezone(TextAuthor) = "America/Mazatlan"
    /\ \E i \in 1..Len(time_list) : time_list[i].ms < 0
    /\ \E i \in 1..Len(time_list) : time_list[i].ms > 3600000
    /\ \E i \in 1..Len(time_list) :
           ~ShownByWallClock(time_list[i].ms, "America/Mazatlan")

\* C23: when the timezone stored for a user is not a valid zone name,
\* conversion ends in an error and renders no tag; in no reachable state is
\* a tag computed in a substitute zone (such as UTC or the host's zone)
\* emitted for that user.
C23_InvalidZoneRendersNoTag ==
    (/\ stage # "untracked"
     /\ TextAuthor \in DOMAIN users
     /\ timezone(TextAuthor) # ""
     /\ ~ValidZoneName(timezone(TextAuthor)))
        => /\ stage # "replied"
           /\ embed = << >>

(* --------------- claims about control reactions (SpecReact) ----------- *)
ControlReactions == {MESSAGE_DELETE_REACTION, MESSAGE_REFRESH_REACTION}

\* the reaction the event tells of is still on the reply
StillThere(ev) == [by |-> ev.by, emoji |-> ev.emoji] \in reactions[ev.m]

\* C24: when a "delete" (or "refresh") control reaction is added to a bot
\* reply by a user who is not the author of the original source message,
\* the reaction is retracted and the bot reply is neither deleted nor
\* edited: once the event has been handled the reaction is gone and the
\* reply is as it was sent.
C24_StrangerControlReactionRetracted ==
    \A ev \in handled :
        (/\ ev.emoji \in ControlReactions
         /\ ev.by \in UserIds
         /\ ev.by # author[ev.m])
            => /\ ~StillThere(ev)
               /\ reply[ev.m] = "converted"

\* C25: when the original author adds the "refresh" control reaction to the
\* bot reply, the triggering reaction is retracted and the reply is
\* regenerated; when the author adds "delete", the bot reply is removed:
\* once the event has been handled, no task is left that would do it later.
C25_AuthorControlReactionActs ==
    \A ev \in handled :
        (ev.by = author[ev.m] /\ react_events = {})
            => /\ ev.emoji = MESSAGE_REFRESH_REACTION => ~StillThere(ev)
               /\ ev.emoji = MESSAGE_DELETE_REACTION => reply[ev.m] = "deleted"

(* ------------- further claims about the handshake (Spec) -------------- *)
\* C26: when two messages from the same identity that has no record are
\* handled concurrently, both register_user calls complete without error
\* under every interleaving (and the one record of the identity holds the
\* token of one of them): no call of the two is ended by the insert of the
\* other.
C26_ConcurrentRegistrationsComplete ==
    \A m \in Msgs : \A k \in Msgs \ {m} :
        (author[m] = author[k] /\ author[m] # NoAuthor)
            => error[m] # "IntegrityError"

\* C27: if the requester's record is removed by /unregister while a waiter
\* for that requester is polling, the waiter treats the absent record as
\* still unregistered: the poll raises no error (and the waiter still ends
\* by editing or deleting its placeholder).
C27_AbsentRecordIsUnregistered ==
    \A m \in Msgs : error[m] # "AttributeError"

\* a step of the handler task of message m: its position changes, or a
\* pass of its waiter's loop ends in `continue`
HandlerStep(m) == pc'[m] # pc[m] \/ (pc[m] = "sleep" /\ slept[m] /\ ~slept'[m])

\* the records of all identities but u are the same before and after
OthersUnchanged(u) ==
    /\ DOMAIN users' \ {u} = DOMAIN users \ {u}
    /\ \A x \in DOMAIN users \ {u} : users'[x] = users[x]

\* C28: time_message_handler changes the user directory only through
\* register_user, and register_user writes only the row of the message's
\* author: in every step of a handler the records of all other identities
\* are unchanged, and the steps outside register_user's commit (lookup,
\* immediate reply, placeholder, the draw, the DM, the waiter's polls)
\* change no record at all.
C28_HandlerWritesOnlyAuthorsRow ==
    [][\A m \in Msgs :
          HandlerStep(m)
              => IF pc[m] = "commit"
                 THEN OthersUnchanged(author[m])
                 ELSE users' = users]_vars

\* C28 witness: register_user has committed the author's row while the
\* directory holds the record of another identity.
C28_Witness ==
    \E m \in Msgs :
        /\ pc[m] = "send_dm"
        /\ author[m] \in DOMAIN users
        /\ pending_token(author[m]) = link_id[m]
        /\ \E x \in DOMAIN users : x # author[m] /\ pending_token(x) # link_id[m]

\* C29: a successful confirmation changes only the timezone field of the
\* one matched record: that record's token and pending_since, and all other
\* records, stay as they were; the same token confirms again, overwriting
\* the timezone, for as long as now - pending_since <= REGISTRATION_TIMEOUT,
\* and is rejected afterwards.
C29_ConfirmationChangesOnlyTimezone ==
    \A id \in LinkIds : \A row \in FetchOne(id) : \A zone \in TextZones :
        LET result == ReceiveResult(row, zone) IN
            IF row # NoUser /\ now - pending_since(row) <= REGISTRATION_TIMEOUT
            THEN /\ result.status = HTTP_OK
                 /\ DOMAIN result.users = DOMAIN users
                 /\ result.users[row].tz = zone
                 /\ result.users[row].update_id = pending_token(row)
                 /\ result.users[row].update_dt = pending_since(row)
                 /\ \A x \in DOMAIN users \ {row} : result.users[x] = users[x]
            ELSE /\ result.status = HTTP_UNAUTHORIZED
                 /\ result.users = users

\* C29 witness: a record that was confirmed before still holds a live
\* token, beside a record that was confirmed and is past its window.
C29_Witness ==
    \E u \in DOMAIN users : \E x \in DOMAIN users :
        /\ timezone(u) # ""
        /\ pending_token(u) \in LinkIds
        /\ now - pending_since(u) <= REGISTRATION_TIMEOUT
        /\ timezone(x) # ""
        /\ pending_token(x) \in LinkIds
        /\ now - pending_since(x) > REGISTRATION_TIMEOUT

(* ------------- a further claim about the text path (SpecText) --------- *)
\* the places, among the matches of the text, of the candidates that are
\* handed to the parser (the links are not)
KeptPlaces(s) ==
    SelectSeq([k \in 1..Len(CandidateList(s)) |-> k],
              LAMBDA k : ~StartsWith(CandidateList(s)[k], <<"h", "t", "t", "p">>))

\* the rendered tag of each match of the text that a time was parsed from
TagOfMatch(s, tz, l) ==
    [k \in {KeptPlaces(s)[l[i].cand] : i \in 1..Len(l)} |->
        LET i == CHOOSE i \in 1..Len(l) : KeptPlaces(s)[l[i].cand] = k
        IN  ConvertTimeList(tz, l)[i]]

\* the text with the n-th match from position i on replaced by its tag when
\* it has one, and left as it is when it has none
RECURSIVE TagsInPlace(_, _, _, _)
TagsInPlace(s, i, n, tagOf) ==
    IF i > Len(s) THEN << >>
    ELSE IF MarkerAt(s, i)
    THEN (IF n \in DOMAIN tagOf THEN tagOf[n] ELSE SubSeq(s, i, MarkerEnd(s, i)))
             \o TagsInPlace(s, MarkerEnd(s, i) + 1, n + 1, tagOf)
    ELSE <<s[i]>> \o TagsInPlace(s, i + 1, n, tagOf)

\* C30: in the rendered reply text, the i-th converted tag replaces exactly
\* the bracketed candidate it was parsed from, and bracketed candidates that
\* were discarded (URLs, text the parser did not understand) are left
\* untouched in the text, for every message mixing parseable and discarded
\* candidates in any order.
C30_TagsReplaceTheirCandidates ==
    stage = "replied"
        => embed = TagsInPlace(content, 1, 1,
                               TagOfMatch(content, timezone(TextAuthor), time_list))

(* ---------------------- the clocks of the handshake ------------------- *)
\* C31: pending_since is stamped from the same clock when a record is
\* created and when it is refreshed, and that is the clock read by the
\* confirmation endpoint, the issuance query and the waiter; so for both
\* first-time and repeat registrations a token issued at time T is accepted
\* exactly at times in [T, T + REGISTRATION_TIMEOUT]: the record a call of
\* register_user has just committed carries the reading T of that clock,
\* and the endpoint, asked at once, accepts its token.
C31_OneClockStampsAndReads ==
    \A m \in Msgs :
        (/\ pc[m] = "send_dm"
         /\ author[m] \in DOMAIN users
         /\ pending_token(author[m]) = link_id[m])
            => /\ pending_since(author[m]) = started[m]
               /\ now - pending_since(author[m]) <= REGISTRATION_TIMEOUT
               /\ now - pending_since(author[m]) >= 0

(* ---------------------------------------------------------------------- *)
\* the entry of a pair (reaction, user) in the registry, as a set: empty
\* when the pair has no entry
EntryOf(register, p) ==
    IF p[1] \in DOMAIN register
    THEN IF p[2] \in DOMAIN register[p[1]] THEN {register[p[1]][p[2]]} ELSE {}
    ELSE {}

\* the latest of a non-empty set of times
Latest(S) == CHOOSE x \in S : \A y \in S : y <= x

\* the stored expiry of a pair is the latest of those requested for it since
\* its last undo, and a pair without such a request has no entry
StoredIsLatestRequested ==
    \A p \in StormPairs :
        EntryOf(reactors_register, p) =
            IF requested[p] = {} THEN {} ELSE {Latest(requested[p])}

\* neither operation changes the entry of a pair it was not called for
OtherPairsUnchanged ==
    /\ \A t \in StormDurations, u \in UserIds, r \in StormReactions :
           ReactStormUserFor(t, u, r) =>
               \A p \in StormPairs \ {<<r, u>>} :
                   EntryOf(reactors_register', p) = EntryOf(reactors_register, p)
    /\ \A u \in UserIds, r \in StormReactions :
           UndoReactStormUser(u, r) =>
               /\ EntryOf(reactors_register', <<r, u>>) = {}
               /\ \A p \in StormPairs \ {<<r, u>>} :
                      EntryOf(reactors_register', p) = EntryOf(reactors_register, p)

\* C32: after any sequence of react_storm_user_for and undo_react_storm_user
\* calls the expiry stored for a (reaction, user) pair is the maximum of the
\* expiries requested for it since its last undo, a pair has no entry after
\* its undo, and the entries of all other pairs are unchanged by either
\* operation.
C32_RegistryKeepsLatestExpiry ==
    /\ []StoredIsLatestRequested
    /\ [][OtherPairsUnchanged]_vars

\* a pair asked for twice with different expiries holds the later one while
\* another reaction, once stormed, has lost its only entry to an undo
C32_Witness ==
    \E p \in StormPairs, r \in DOMAIN reactors_register :
        /\ Cardinality(requested[p]) >= 2
        /\ EntryOf(reactors_register, p) = {Latest(requested[p])}
        /\ r # p[1]
        /\ DOMAIN reactors_register[r] = {}

====
